---- MODULE Spec2Model ----
(***************************************************************************)
(* Video-app-backend: an Express server that stores videos in a GridFS     *)
(* bucket ("videos") and serves them by byte range.                        *)
(*                                                                         *)
(* The model follows src/server.js (POST /upload, GET /videos,             *)
(* GET /video/:id) and src/unnamed/part_000 (the same three routes plus    *)
(* PUT /video/:id and DELETE /video/:id).  Every request runs on Node's    *)
(* single-threaded event loop: a handler runs without interruption up to   *)
(* its next await (or stream event), so one action of the model is one     *)
(* such run.  The GridFS bucket is the shared state: the videos.files      *)
(* collection (one document per stored video) and the videos.chunks        *)
(* collection (the chunk documents of each video).                         *)
(*                                                                         *)
(* Bytes are not enumerated: a stored video is a data tag with a length,   *)
(* and a streamed body is the sequence of slices [data, from, to] (byte    *)
(* offsets, inclusive) that the download stream pushed, one per chunk.     *)
(***************************************************************************)
EXTENDS Integers, Sequences, FiniteSets, TLC

----------------------------------------------------------------------------
(* Bounds of the model *)

\* Number of HTTP requests that arrive in one behaviour.
MaxReqs == 2
\* Number of ObjectIds the store ever holds (the preloaded one included).
MaxIds == 2

(* Program constants *)

\* const CHUNK_SIZE = 10 ** 6 in GET /video/:id
CHUNK_SIZE == 1000000
\* chunkSizeBytes: 1048576 passed to openUploadStream
chunkSizeBytes == 1048576

----------------------------------------------------------------------------
(* Values *)

Reqs == 1..MaxReqs
Ids == 1..MaxIds
\* An id string that new mongoose.Types.ObjectId() rejects.
BadId == 0
RouteIds == Ids \cup {BadId}

\* The absent title (req.body.title undefined) is the empty string: both are
\* falsy in `!title` and in `title || ...`.
NoTitle == ""
Titles == {"A"}
InitTitle == "t0"

\* A files document that does not exist.
NoFile == [title |-> "", length |-> -1, data |-> ""]
\* No multipart file in the request (req.file undefined).
NoBuf == [data |-> "", length |-> -1]
\* The file buffers multer hands to the handlers.
Buffers == {[data |-> "v1", length |-> 1500000]}
\* The videos a previous run of the server may have left in the bucket.
InitFiles == {[title |-> InitTitle, length |-> 2500000, data |-> "v0"]}

\* Range headers, as the sequence of their characters; <<>> is no header.
NoRange == <<>>
Ranges == { NoRange,
            <<"b","y","t","e","s","=","0","-">>,
            <<"b","y","t","e","s","=","1","0","0","0","0","0","0","-">>,
            <<"b","y","t","e","s","=","1","0","0","-","2","0","0">>,
            <<"b","y","t","e","s","=","2","5","0","0","0","0","0","-">> }

Min(a, b) == IF a <= b THEN a ELSE b
Max(a, b) == IF a >= b THEN a ELSE b

----------------------------------------------------------------------------
(* Range parsing: Number(range.replace(/\D/g, "")) *)

Digits == {"0","1","2","3","4","5","6","7","8","9"}
IsDigit(c) == c \in Digits
DigitVal(c) ==
  CASE c = "0" -> 0 [] c = "1" -> 1 [] c = "2" -> 2 [] c = "3" -> 3
    [] c = "4" -> 4 [] c = "5" -> 5 [] c = "6" -> 6 [] c = "7" -> 7
    [] c = "8" -> 8 [] c = "9" -> 9

\* range.replace(/\D/g, ""): every character that is not a digit is removed.
StripNonDigits(s) == SelectSeq(s, IsDigit)

\* Number(str) of a string of decimal digits; Number("") is 0.
RECURSIVE ToNumber(_)
ToNumber(s) ==
  IF s = <<>> THEN 0
  ELSE 10 * ToNumber(SubSeq(s, 1, Len(s) - 1)) + DigitVal(s[Len(s)])

ParseStart(range) == ToNumber(StripNonDigits(range))

\* Math.min(start + CHUNK_SIZE, videoSize - 1)
WindowEnd(start, videoSize) == Min(start + CHUNK_SIZE, videoSize - 1)

\* const contentLength = end - start + 1
ContentLength(start, end) == end - start + 1

----------------------------------------------------------------------------
(* GridFS chunk layout *)

\* Number of chunk documents of a file of the given length.
NumChunks(length) == (length + chunkSizeBytes - 1) \div chunkSizeBytes

\* openDownloadStream(id, {start, end}): `start` is the 0-based offset of the
\* first byte, `end` the 0-based offset of the byte just AFTER the last one
\* streamed (the driver's end is exclusive).  The stream reads the chunks
\* FirstChunk..LastChunk in order.
FirstChunk(start) == start \div chunkSizeBytes
LastChunk(end) == (end - 1) \div chunkSizeBytes

\* The slice of chunk n that a download of [start, end) pushes.
ChunkSlice(data, n, start, end) ==
  [data |-> data,
   from |-> Max(start, n * chunkSizeBytes),
   to   |-> Min(end, (n + 1) * chunkSizeBytes) - 1]

----------------------------------------------------------------------------
(* State *)

VARIABLES
  gridFSBucket,  \* TRUE once conn.once("open") has assigned the bucket handle
  alive,         \* FALSE once an unhandled stream 'error' event ended the process
  files,         \* videos.files: id -> files document, or NoFile
  chunks,        \* videos.chunks: id -> number of chunk documents stored (n = 0..k-1)
  nextId,        \* the next ObjectId the driver generates
  req,           \* request -> its handler's parameters, position and locals
  committed,     \* history: ids whose files document was ever inserted
  failedUploads, \* history: upload-stream ids whose upload met a store failure
  deleteAcked    \* history: ids for which DELETE /video/:id has responded 200

vars == <<gridFSBucket, alive, files, chunks, nextId, req, committed, failedUploads,
          deleteAcked>>

IdleReq ==
  [kind     |-> "none",   \* "POST" | "LIST" | "GET" | "PUT" | "DELETE"
   pc       |-> "idle",
   id       |-> BadId,    \* req.params.id
   title    |-> NoTitle,  \* req.body.title
   file     |-> NoBuf,    \* req.file
   range    |-> NoRange,  \* req.headers.range, once the handler has read it
   status   |-> 0,        \* res.statusCode once set, 0 before
   snap     |-> NoFile,   \* file[0] of the handler's find()
   found    |-> FALSE,    \* the handler's find() returned a document
   start    |-> 0,
   end      |-> 0,
   clen     |-> 0,        \* the Content-Length header
   next     |-> 0,        \* download stream: next chunk to read
   dlData   |-> "",       \* download stream: data of the files document it loaded
   body     |-> <<>>,     \* slices written to the response
   upId     |-> 0,        \* uploadStream.id
   upTitle  |-> NoTitle,  \* metadata.title given to openUploadStream
   written  |-> 0,        \* upload stream: chunks written so far
   deleted  |-> 0,        \* deletedCount of the files deleteOne
   delTitle |-> NoTitle,  \* history: title of the document the delete removed
   fileId   |-> 0,        \* fileId of the JSON response, 0 if none
   listed   |-> {},       \* ids of the GET /videos response
   delSeen  |-> {},       \* history: deleteAcked when the request arrived
   replSeen |-> {},       \* history: ReplaceAcked when the request arrived
   ready    |-> FALSE]    \* history: gridFSBucket was assigned when it arrived

\* Requests arrive in the order of their numbers.
CanArrive(r) ==
  /\ alive
  /\ req[r].pc = "idle"
  /\ \A q \in Reqs : q < r => req[q].pc # "idle"

\* The ids whose content-replacing PUT has responded 200.
ReplaceAcked ==
  {req[q].id : q \in {p \in Reqs : /\ req[p].kind = "PUT"
                                   /\ req[p].file # NoBuf
                                   /\ req[p].pc = "done"
                                   /\ req[p].status = 200}}

Arrived(r, kind) ==
  [IdleReq EXCEPT !.kind = kind, !.delSeen = deleteAcked, !.replSeen = ReplaceAcked,
                  !.ready = gridFSBucket]

\* res.status(code).json({...}): the response is sent and ended.
Respond(rec, code) == [rec EXCEPT !.pc = "done", !.status = code]

\* Uploads promised by content-replacing PUTs that have not yet opened their
\* upload stream; with nextId they keep the ids within Ids.
IdsPromised ==
  Cardinality({q \in Reqs : /\ req[q].kind = "PUT"
                            /\ req[q].file # NoBuf
                            /\ req[q].pc \in {"find", "update", "delete", "deleteChunks"}})
IdAvailable == nextId + IdsPromised <= MaxIds

TypeOK ==
  /\ gridFSBucket \in BOOLEAN
  /\ alive \in BOOLEAN
  /\ nextId \in 1..(MaxIds + 1)
  /\ \A i \in Ids : chunks[i] \in 0..3
  /\ \A r \in Reqs : req[r].status \in {0, 200, 206, 400, 404, 500}

Init ==
  /\ gridFSBucket = FALSE
  /\ alive = TRUE
  /\ \/ /\ files = [i \in Ids |-> NoFile]
        /\ chunks = [i \in Ids |-> 0]
        /\ nextId = 1
        /\ committed = {}
     \/ \E f \in InitFiles :
        /\ files = [i \in Ids |-> IF i = 1 THEN f ELSE NoFile]
        /\ chunks = [i \in Ids |-> IF i = 1 THEN NumChunks(f.length) ELSE 0]
        /\ nextId = 2
        /\ committed = {1}
  /\ req = [r \in Reqs |-> IdleReq]
  /\ failedUploads = {}
  /\ deleteAcked = {}

----------------------------------------------------------------------------
(* conn.once("open", ...) *)

ConnOpen ==
  /\ alive
  /\ ~gridFSBucket
  /\ gridFSBucket' = TRUE
  /\ UNCHANGED <<alive, files, chunks, nextId, req, committed, failedUploads, deleteAcked>>

----------------------------------------------------------------------------
(* Upload stream (openUploadStream + pipe), shared by POST /upload and PUT *)

\* Faulty variant of OpenUpload, used to test the properties:
\* a content-replacing PUT stores the new content under the id it replaces.
OpenUploadSameId(rec, title) ==
  [rec EXCEPT !.pc = "uploading",
              !.upId = IF rec.kind = "PUT" THEN rec.id ELSE nextId,
              !.upTitle = title, !.written = 0]

\* gridFSBucket.openUploadStream(name, {metadata: {title}, chunkSizeBytes}):
\* the driver generates the stream's id; nothing is stored yet.
OpenUpload(rec, title) ==
  [rec EXCEPT !.pc = "uploading", !.upId = nextId, !.upTitle = title, !.written = 0]

\* The files document the upload stream inserts once every chunk is written.
UploadDoc(rec) ==
  [title |-> rec.upTitle, length |-> rec.file.length, data |-> rec.file.data]

\* Faulty variant of UploadChunk, used to test the properties:
\* the files document is inserted together with the first chunk instead of after the last one.
UploadChunkEager(r) ==
  /\ alive
  /\ req[r].pc = "uploading"
  /\ req[r].written < NumChunks(req[r].file.length)
  /\ chunks' = [chunks EXCEPT ![req[r].upId] = @ + 1]
  /\ files' = [files EXCEPT ![req[r].upId] = UploadDoc(req[r])]
  /\ req' = [req EXCEPT ![r].written = @ + 1]
  /\ UNCHANGED <<gridFSBucket, alive, nextId, committed, failedUploads, deleteAcked>>

\* One chunk document is inserted into videos.chunks.
UploadChunk(r) ==
  /\ alive
  /\ req[r].pc = "uploading"
  /\ req[r].written < NumChunks(req[r].file.length)
  /\ chunks' = [chunks EXCEPT ![req[r].upId] = @ + 1]
  /\ req' = [req EXCEPT ![r].written = @ + 1]
  /\ UNCHANGED <<gridFSBucket, alive, files, nextId, committed, failedUploads, deleteAcked>>

\* All chunks are written: the files document is inserted into videos.files.
UploadCommit(r) ==
  /\ alive
  /\ req[r].pc = "uploading"
  /\ req[r].written = NumChunks(req[r].file.length)
  /\ files' = [files EXCEPT ![req[r].upId] = UploadDoc(req[r])]
  /\ committed' = committed \cup {req[r].upId}
  /\ req' = [req EXCEPT ![r].pc = "inserted"]
  /\ UNCHANGED <<gridFSBucket, alive, chunks, nextId, failedUploads, deleteAcked>>

\* uploadStream.on("finish"): res.json({message, fileId: uploadStream.id})
UploadFinish(r) ==
  /\ alive
  /\ req[r].pc = "inserted"
  /\ req' = [req EXCEPT ![r] = [Respond(@, 200) EXCEPT !.fileId = req[r].upId]]
  /\ UNCHANGED <<gridFSBucket, alive, files, chunks, nextId, committed, failedUploads,
                 deleteAcked>>

\* Store failure while a chunk or the files document is being written:
\* uploadStream.on("error") answers 500; the files document is not inserted.
UploadError(r) ==
  /\ alive
  /\ req[r].pc = "uploading"
  /\ failedUploads' = failedUploads \cup {req[r].upId}
  /\ req' = [req EXCEPT ![r] = Respond(@, 500)]
  /\ UNCHANGED <<gridFSBucket, alive, files, chunks, nextId, committed, deleteAcked>>

----------------------------------------------------------------------------
(* POST /upload *)

PostUpload(r) ==
  /\ CanArrive(r)
  /\ \E title \in Titles \cup {NoTitle}, file \in Buffers \cup {NoBuf} :
       LET rec == [Arrived(r, "POST") EXCEPT !.title = title, !.file = file] IN
       IF title = NoTitle \/ file = NoBuf
       THEN \* if (!title || !req.file) return res.status(400)
            /\ req' = [req EXCEPT ![r] = Respond(rec, 400)]
            /\ UNCHANGED nextId
       ELSE IF ~gridFSBucket
       THEN \* gridFSBucket is undefined: TypeError, caught, 500
            /\ req' = [req EXCEPT ![r] = Respond(rec, 500)]
            /\ UNCHANGED nextId
       ELSE /\ IdAvailable
            /\ req' = [req EXCEPT ![r] = OpenUpload(rec, title)]
            /\ nextId' = nextId + 1
  /\ UNCHANGED <<gridFSBucket, alive, files, chunks, committed, failedUploads, deleteAcked>>

----------------------------------------------------------------------------
(* Awaited store calls shared by the handlers *)

\* Faulty variant of BeginFind, used to test the properties:
\* the find is issued whether or not the bucket handle has been assigned.
BeginFindUnguarded(rec) ==
  IF rec.id = BadId THEN Respond(rec, 500)
  ELSE [rec EXCEPT !.pc = "find"]

\* Every handler starts with the same synchronous prefix before its first
\* await: new mongoose.Types.ObjectId(req.params.id) throws on a malformed id
\* and gridFSBucket.find throws while gridFSBucket is undefined; the catch
\* block answers 500.  Otherwise the find is issued and the handler suspends.
BeginFind(rec) ==
  IF rec.id = BadId \/ ~gridFSBucket THEN Respond(rec, 500)
  ELSE [rec EXCEPT !.pc = "find"]

\* await gridFSBucket.find({_id: fileId}).toArray() returns.
FindResult(rec) ==
  [rec EXCEPT !.snap = files[rec.id], !.found = (files[rec.id] # NoFile)]

\* Faulty variant of DeleteFilesDoc, used to test the properties:
\* the delete reports one document removed but leaves the files document in place.
DeleteFilesDocKeep(r) ==
  /\ alive
  /\ req[r].pc = "delete"
  /\ req' = [req EXCEPT ![r].pc = "deleteChunks",
                        ![r].deleted = IF files[req[r].id] # NoFile THEN 1 ELSE 0,
                        ![r].delTitle = files[req[r].id].title]
  /\ UNCHANGED <<gridFSBucket, alive, files, chunks, nextId, committed, failedUploads,
                 deleteAcked>>

\* gridFSBucket.delete(fileId), first step: deleteOne on videos.files.
DeleteFilesDoc(r) ==
  /\ alive
  /\ req[r].pc = "delete"
  /\ files' = [files EXCEPT ![req[r].id] = NoFile]
  /\ req' = [req EXCEPT ![r].pc = "deleteChunks",
                        ![r].deleted = IF files[req[r].id] # NoFile THEN 1 ELSE 0,
                        ![r].delTitle = files[req[r].id].title]
  /\ UNCHANGED <<gridFSBucket, alive, chunks, nextId, committed, failedUploads, deleteAcked>>

----------------------------------------------------------------------------
(* GET /videos *)

GetVideos(r) ==
  /\ CanArrive(r)
  /\ req' = [req EXCEPT ![r] =
       IF ~gridFSBucket THEN Respond(Arrived(r, "LIST"), 500)
       ELSE [Arrived(r, "LIST") EXCEPT !.pc = "find"]]
  /\ UNCHANGED <<gridFSBucket, alive, files, chunks, nextId, committed, failedUploads,
                 deleteAcked>>

\* await gridFSBucket.find().toArray() returns: 404 if empty, else the list.
GetVideosFound(r) ==
  /\ alive
  /\ req[r].kind = "LIST"
  /\ req[r].pc = "find"
  /\ LET ids == {i \in Ids : files[i] # NoFile} IN
     req' = [req EXCEPT ![r] =
       IF ids = {} THEN Respond(@, 404)
       ELSE [Respond(@, 200) EXCEPT !.listed = ids]]
  /\ UNCHANGED <<gridFSBucket, alive, files, chunks, nextId, committed, failedUploads,
                 deleteAcked>>

----------------------------------------------------------------------------
(* GET /video/:id *)

GetVideo(r) ==
  /\ CanArrive(r)
  /\ \E id \in RouteIds :
       req' = [req EXCEPT ![r] = BeginFind([Arrived(r, "GET") EXCEPT !.id = id])]
  /\ UNCHANGED <<gridFSBucket, alive, files, chunks, nextId, committed, failedUploads,
                 deleteAcked>>

\* Faulty variant of ServeRange, used to test the properties:
\* a request without a Range header is served from byte 0 instead of being rejected.
ServeRangeDefault(rec) ==
  IF ~rec.found THEN Respond(rec, 404)
  ELSE LET videoSize == rec.snap.length
           start == ParseStart(rec.range)
           end == WindowEnd(start, videoSize)
       IN [rec EXCEPT !.status = 206,
                      !.start = start,
                      !.end = end,
                      !.clen = ContentLength(start, end),
                      !.pc = "dlInit"]

\* The handler from the return of find() to downloadStream.pipe(res).
ServeRange(rec) ==
  IF ~rec.found THEN Respond(rec, 404)
  ELSE IF rec.range = NoRange THEN Respond(rec, 400)
  ELSE LET videoSize == rec.snap.length
           start == ParseStart(rec.range)
           end == WindowEnd(start, videoSize)
       IN [rec EXCEPT !.status = 206,
                      !.start = start,
                      !.end = end,
                      !.clen = ContentLength(start, end),
                      !.pc = "dlInit"]

GetVideoFound(r) ==
  /\ alive
  /\ req[r].kind = "GET"
  /\ req[r].pc = "find"
  /\ \E range \in Ranges :   \* const range = req.headers.range
       req' = [req EXCEPT ![r] = ServeRange([FindResult(@) EXCEPT !.range = range])]
  /\ UNCHANGED <<gridFSBucket, alive, files, chunks, nextId, committed, failedUploads,
                 deleteAcked>>

\* The download stream's options are valid for the files document: the driver
\* rejects a start beyond the file's length and an end before the start.
RangeAccepted(doc, start, end) ==
  /\ doc # NoFile
  /\ start <= doc.length
  /\ end >= start
  /\ end <= doc.length

\* First read of the download stream: it loads the files document and checks
\* {start, end} against it.
DownloadInit(r) ==
  /\ alive
  /\ req[r].pc = "dlInit"
  /\ RangeAccepted(files[req[r].id], req[r].start, req[r].end)
  /\ req' = [req EXCEPT ![r] =
       IF req[r].end = req[r].start
       THEN [@ EXCEPT !.pc = "done"]     \* nothing to read: the stream ends
       ELSE [@ EXCEPT !.pc = "dlChunks", !.next = FirstChunk(req[r].start),
                      !.dlData = files[req[r].id].data]]
  /\ UNCHANGED <<gridFSBucket, alive, files, chunks, nextId, committed, failedUploads,
                 deleteAcked>>

\* The download stream reads its next chunk document and pushes the slice of
\* it that lies in [start, end); after the last one the stream ends and pipe
\* ends the response.
DownloadChunk(r) ==
  /\ alive
  /\ req[r].pc = "dlChunks"
  /\ req[r].next < chunks[req[r].id]
  /\ req' = [req EXCEPT ![r] =
       [@ EXCEPT !.body = Append(@, ChunkSlice(req[r].dlData, req[r].next,
                                               req[r].start, req[r].end)),
                 !.next = @ + 1,
                 !.pc = IF req[r].next = LastChunk(req[r].end) THEN "done" ELSE "dlChunks"]]
  /\ UNCHANGED <<gridFSBucket, alive, files, chunks, nextId, committed, failedUploads,
                 deleteAcked>>

\* The download stream emits 'error' (rejected options, files document or
\* chunk gone).  The handler attached no 'error' listener and pipe() forwards
\* none, so the event is unhandled: Node throws it as an uncaught exception
\* and the process ends with the 206 response and every other request
\* unfinished.
DownloadError(r) ==
  /\ alive
  /\ \/ /\ req[r].pc = "dlInit"
        /\ ~RangeAccepted(files[req[r].id], req[r].start, req[r].end)
     \/ /\ req[r].pc = "dlChunks"
        /\ req[r].next >= chunks[req[r].id]
  /\ alive' = FALSE
  /\ req' = [req EXCEPT ![r].pc = "aborted"]
  /\ UNCHANGED <<gridFSBucket, files, chunks, nextId, committed, failedUploads, deleteAcked>>

----------------------------------------------------------------------------
(* PUT /video/:id *)

PutVideo(r) ==
  /\ CanArrive(r)
  /\ \E id \in RouteIds, title \in Titles \cup {NoTitle}, file \in Buffers \cup {NoBuf} :
       LET rec == BeginFind([Arrived(r, "PUT") EXCEPT !.id = id, !.title = title,
                                                      !.file = file]) IN
       /\ (rec.pc = "find" /\ file # NoBuf) => IdAvailable
       /\ req' = [req EXCEPT ![r] = rec]
  /\ UNCHANGED <<gridFSBucket, alive, files, chunks, nextId, committed, failedUploads,
                 deleteAcked>>

\* What the handler does once the title, if any, has been dealt with:
\* if (req.file) { await gridFSBucket.delete(fileId) ... } else res.json(...)
ReplaceOrAnswer(rec) ==
  IF rec.file # NoBuf THEN [rec EXCEPT !.pc = "delete"] ELSE Respond(rec, 200)

\* The handler from the return of find() to its next await.
PutAfterFind(rec) ==
  IF ~rec.found THEN Respond(rec, 404)
  ELSE IF rec.title # NoTitle THEN [rec EXCEPT !.pc = "update"]
  ELSE ReplaceOrAnswer(rec)

PutFound(r) ==
  /\ alive
  /\ req[r].kind = "PUT"
  /\ req[r].pc = "find"
  /\ req' = [req EXCEPT ![r] = PutAfterFind(FindResult(@))]
  /\ UNCHANGED <<gridFSBucket, alive, files, chunks, nextId, committed, failedUploads,
                 deleteAcked>>

\* Faulty variant of UpdateTitle, used to test the properties:
\* the update replaces the whole document (an update without $set) instead of setting one field of it.
UpdateTitleReplace(fs, id, title) ==
  IF fs[id] = NoFile THEN fs
  ELSE [fs EXCEPT ![id] = [title |-> title, length |-> 0, data |-> ""]]

\* updateOne({_id: fileId}, {$set: {"metadata.title": title}}) on videos.files:
\* the matching document, if there is one, gets the title.
UpdateTitle(fs, id, title) ==
  IF fs[id] = NoFile THEN fs ELSE [fs EXCEPT ![id].title = title]

PutUpdate(r) ==
  /\ alive
  /\ req[r].pc = "update"
  /\ files' = UpdateTitle(files, req[r].id, req[r].title)
  /\ req' = [req EXCEPT ![r] = ReplaceOrAnswer(@)]
  /\ UNCHANGED <<gridFSBucket, alive, chunks, nextId, committed, failedUploads, deleteAcked>>

\* metadata: { title: title || file[0].metadata.title }
ReplaceTitle(rec) == IF rec.title # NoTitle THEN rec.title ELSE rec.snap.title

\* Faulty variant of PutDeleted, used to test the properties:
\* the upload stream is opened without the old chunks having been removed.
PutDeletedKeepChunks(r) ==
  /\ alive
  /\ req[r].kind = "PUT"
  /\ req[r].pc = "deleteChunks"
  /\ IF req[r].deleted = 0
     THEN /\ req' = [req EXCEPT ![r] = Respond(@, 500)]
          /\ UNCHANGED nextId
     ELSE /\ req' = [req EXCEPT ![r] = OpenUpload(@, ReplaceTitle(@))]
          /\ nextId' = nextId + 1
  /\ UNCHANGED <<gridFSBucket, alive, files, chunks, committed, failedUploads, deleteAcked>>

\* gridFSBucket.delete(fileId), second step: deleteMany on videos.chunks, then
\* the driver rejects with "File not found" if the deleteOne removed nothing
\* (the catch block answers 500).  Otherwise the handler goes on to open the
\* upload stream for the new content.
PutDeleted(r) ==
  /\ alive
  /\ req[r].kind = "PUT"
  /\ req[r].pc = "deleteChunks"
  /\ chunks' = [chunks EXCEPT ![req[r].id] = 0]
  /\ IF req[r].deleted = 0
     THEN /\ req' = [req EXCEPT ![r] = Respond(@, 500)]
          /\ UNCHANGED nextId
     ELSE /\ req' = [req EXCEPT ![r] = OpenUpload(@, ReplaceTitle(@))]
          /\ nextId' = nextId + 1
  /\ UNCHANGED <<gridFSBucket, alive, files, committed, failedUploads, deleteAcked>>

----------------------------------------------------------------------------
(* DELETE /video/:id *)

DeleteVideo(r) ==
  /\ CanArrive(r)
  /\ \E id \in RouteIds :
       req' = [req EXCEPT ![r] = BeginFind([Arrived(r, "DELETE") EXCEPT !.id = id])]
  /\ UNCHANGED <<gridFSBucket, alive, files, chunks, nextId, committed, failedUploads,
                 deleteAcked>>

\* The handler from the return of find() to await gridFSBucket.delete(fileId).
DeleteAfterFind(rec) ==
  IF ~rec.found THEN Respond(rec, 404) ELSE [rec EXCEPT !.pc = "delete"]

DeleteFound(r) ==
  /\ alive
  /\ req[r].kind = "DELETE"
  /\ req[r].pc = "find"
  /\ req' = [req EXCEPT ![r] = DeleteAfterFind(FindResult(@))]
  /\ UNCHANGED <<gridFSBucket, alive, files, chunks, nextId, committed, failedUploads,
                 deleteAcked>>

\* gridFSBucket.delete(fileId), second step, then
\* res.json({message: "Video deleted successfully"}), or 500 from the catch
\* block if the driver rejected with "File not found".
DeleteDone(r) ==
  /\ alive
  /\ req[r].kind = "DELETE"
  /\ req[r].pc = "deleteChunks"
  /\ chunks' = [chunks EXCEPT ![req[r].id] = 0]
  /\ IF req[r].deleted = 0
     THEN /\ req' = [req EXCEPT ![r] = Respond(@, 500)]
          /\ UNCHANGED deleteAcked
     ELSE /\ req' = [req EXCEPT ![r] = Respond(@, 200)]
          /\ deleteAcked' = deleteAcked \cup {req[r].id}
  /\ UNCHANGED <<gridFSBucket, alive, files, nextId, committed, failedUploads>>

----------------------------------------------------------------------------
(* Store failures *)

\* An awaited store call (find, updateOne, either step of delete) rejects:
\* the handler's catch block answers 500.
StoreError(r) ==
  /\ alive
  /\ req[r].pc \in {"find", "update", "delete", "deleteChunks"}
  /\ req' = [req EXCEPT ![r] = Respond(@, 500)]
  /\ UNCHANGED <<gridFSBucket, alive, files, chunks, nextId, committed, failedUploads,
                 deleteAcked>>

\* A read of the download stream fails in the store: the stream emits 'error',
\* which is unhandled as in DownloadError.
DownloadStoreError(r) ==
  /\ alive
  /\ req[r].pc \in {"dlInit", "dlChunks"}
  /\ alive' = FALSE
  /\ req' = [req EXCEPT ![r].pc = "aborted"]
  /\ UNCHANGED <<gridFSBucket, files, chunks, nextId, committed, failedUploads, deleteAcked>>

----------------------------------------------------------------------------
(* Specifications *)

\* The server with a store that does not fail.
Next ==
  \/ ConnOpen
  \/ \E r \in Reqs :
       \/ PostUpload(r) \/ UploadChunk(r) \/ UploadCommit(r) \/ UploadFinish(r)
       \/ GetVideos(r) \/ GetVideosFound(r)
       \/ GetVideo(r) \/ GetVideoFound(r)
       \/ DownloadInit(r) \/ DownloadChunk(r) \/ DownloadError(r)
       \/ PutVideo(r) \/ PutFound(r) \/ PutUpdate(r) \/ PutDeleted(r)
       \/ DeleteVideo(r) \/ DeleteFound(r) \/ DeleteFilesDoc(r) \/ DeleteDone(r)

Spec == Init /\ [][Next]_vars

\* The server with a store whose calls may fail.
FaultNext ==
  \/ Next
  \/ \E r \in Reqs : StoreError(r) \/ UploadError(r) \/ DownloadStoreError(r)

FaultSpec == Init /\ [][FaultNext]_vars

----------------------------------------------------------------------------
(* Reference definitions used by the properties *)

\* The fixed maximum serving window of the range resolver, in bytes.
WINDOW == CHUNK_SIZE

\* The leading numeric token of a Range header "bytes=<start>-[<end>]": the
\* first maximal run of digits.
LeadingToken(range) ==
  LET first == CHOOSE i \in 1..Len(range) :
                 /\ IsDigit(range[i])
                 /\ \A j \in 1..(i - 1) : ~IsDigit(range[j])
      last == CHOOSE k \in first..Len(range) :
                 /\ \A j \in first..k : IsDigit(range[j])
                 /\ (k = Len(range) \/ ~IsDigit(range[k + 1]))
  IN SubSeq(range, first, last)

LeadingStart(range) == ToNumber(LeadingToken(range))

\* Chunk codec read: the slices of the chunks first..last that make up the
\* bytes start..end (both inclusive) of the data.
ReadRange(data, start, end) ==
  LET first == start \div chunkSizeBytes
      last == end \div chunkSizeBytes
  IN [k \in 1..(last - first + 1) |->
        [data |-> data,
         from |-> Max(start, (first + k - 1) * chunkSizeBytes),
         to   |-> Min(end, (first + k) * chunkSizeBytes - 1)]]

\* Number of bytes of a body.
RECURSIVE BodyBytes(_)
BodyBytes(body) ==
  IF body = <<>> THEN 0
  ELSE (Head(body).to - Head(body).from + 1) + BodyBytes(Tail(body))

\* Request r is a GET /video/:id whose handler has set the 206 status.
Partial(r) == req[r].kind = "GET" /\ req[r].status = 206

----------------------------------------------------------------------------
(* Properties *)

\* C1: for a Range start s with 0 <= s < L on a live blob of length L, the
\* served range is [s, e] with e = min(s + 1,000,000 - 1, L - 1), so the
\* declared Content-Length never exceeds the 1,000,000-byte window.
C1_WindowCap ==
  \A r \in Reqs :
    (Partial(r) /\ req[r].start < req[r].snap.length) =>
      /\ req[r].end = Min(req[r].start + WINDOW - 1, req[r].snap.length - 1)
      /\ req[r].clen <= WINDOW

\* C2: the start offset used for a header "bytes=<start>-[<end>]" is the
\* leading numeric token <start>, whether or not an <end> token follows.
C2_StartIsLeadingToken ==
  \A r \in Reqs : Partial(r) => req[r].start = LeadingStart(req[r].range)

\* C3: on a live blob of length L a Range start s >= L is rejected with a
\* client error: no 206 status is set and no download stream is opened.
C3_OutOfBoundsRejected ==
  \A r \in Reqs :
    ( /\ req[r].kind = "GET"
      /\ req[r].found
      /\ req[r].range # NoRange
      /\ LeadingStart(req[r].range) >= req[r].snap.length ) =>
      /\ req[r].pc = "done"
      /\ req[r].status \in 400..499

\* C4: the body of a finished 206 response is exactly the stored bytes at
\* offsets start..end of the declared range, so its size is the declared
\* Content-Length.
C4_BodyIsDeclaredRange ==
  \A r \in Reqs :
    (Partial(r) /\ req[r].pc = "done") =>
      /\ req[r].body = ReadRange(req[r].snap.data, req[r].start, req[r].end)
      /\ BodyBytes(req[r].body) = req[r].clen

\* C5: an upload whose store fails after N of M chunks never becomes a
\* record: its id is in no files document, no list and no lookup result; and
\* a success response carries the id of a committed record only.
C5_UploadAtomicity ==
  /\ \A u \in failedUploads : files[u] = NoFile /\ u \notin committed
  /\ \A r \in Reqs :
       /\ req[r].listed \cap failedUploads = {}
       /\ req[r].id \in failedUploads => ~req[r].found
       /\ (req[r].status = 200 /\ req[r].fileId # 0) =>
            /\ req[r].fileId \in committed
            /\ req[r].fileId \notin failedUploads

\* C5 witness: an upload failed after one of its two chunks was written and a
\* later GET /video/:id for its id was answered 404.
C5_Witness ==
  \E u \in failedUploads :
    /\ chunks[u] = 1
    /\ \E r \in Reqs : /\ req[r].kind = "GET"
                       /\ req[r].id = u
                       /\ req[r].pc = "done"
                       /\ req[r].status = 404

C7_MissingRangeIs400 ==
  \A r \in Reqs :
    (req[r].kind = "GET" /\ req[r].found /\ req[r].range = NoRange) =>
      /\ req[r].pc = "done"
      /\ req[r].status = 400
      /\ req[r].body = <<>>

\* C7 witness: a GET without a Range header found its video.
C7_Witness ==
  \E r \in Reqs : req[r].kind = "GET" /\ req[r].found /\ req[r].range = NoRange

\* C8: GET, PUT and DELETE on an id that is no live record, malformed id
\* strings included, respond 404 and never 500 (requests that arrived after
\* the bucket handle was assigned).
C8_UnknownIdIs404 ==
  \A r \in Reqs :
    ( /\ req[r].kind \in {"GET", "PUT", "DELETE"}
      /\ req[r].ready
      /\ req[r].pc = "done"
      /\ (req[r].id = BadId \/ req[r].id \notin committed) ) =>
      req[r].status = 404

\* C9: a step of a PUT that carries a title and no file changes nothing in
\* the store but the title of the record it addresses, which it sets to the
\* title supplied: no record appears or disappears, length, data and chunks
\* stay as they are.
C9_MetadataOnlyFrame ==
  [][ \A r \in Reqs :
        ( /\ req[r].kind = "PUT"
          /\ req[r].file = NoBuf
          /\ req[r].title # NoTitle
          /\ req'[r] # req[r] ) =>
          /\ chunks' = chunks
          /\ nextId' = nextId
          /\ \A i \in Ids :
               \/ files'[i] = files[i]
               \/ /\ i = req[r].id
                  /\ files[i] # NoFile
                  /\ files'[i] = [files[i] EXCEPT !.title = req[r].title]
          /\ (req[r].pc = "update" /\ files[req[r].id] # NoFile) =>
               files'[req[r].id].title = req[r].title ]_vars

\* C9 witness: a metadata-only PUT was answered 200 and its record holds the
\* new title with the content it had.
C9_Witness ==
  \E r \in Reqs :
    /\ req[r].kind = "PUT"
    /\ req[r].file = NoBuf
    /\ req[r].title # NoTitle
    /\ req[r].status = 200
    /\ req[r].snap.title # req[r].title
    /\ files[req[r].id] = [req[r].snap EXCEPT !.title = req[r].title]

\* C10: after a successful content-replacing PUT the new record's title is
\* the title supplied in that PUT, or else the title the old record held at
\* the moment it was deleted.
C10_ReplaceKeepsTitle ==
  \A r \in Reqs :
    ( /\ req[r].kind = "PUT"
      /\ req[r].file # NoBuf
      /\ req[r].pc = "done"
      /\ req[r].status = 200 ) =>
      req[r].upTitle = IF req[r].title # NoTitle THEN req[r].title ELSE req[r].delTitle


\* Request r is a content-replacing PUT that has responded 200.
Replaced(r) ==
  /\ req[r].kind = "PUT"
  /\ req[r].file # NoBuf
  /\ req[r].pc = "done"
  /\ req[r].status = 200

\* C11: after a successful content-replacing PUT /video/X the returned fileId
\* is a new id, not X; the record inserted under it carries the new content
\* (and is there until a request addressed to the new id removes it); X is no
\* record any more, and every GET, PUT or DELETE for X that arrives after the
\* response is answered 404.
C11_ReplaceIssuesNewId ==
  /\ \A r \in Reqs :
       Replaced(r) =>
         /\ req[r].fileId # req[r].id
         /\ req[r].fileId = req[r].upId
         /\ req[r].fileId \in committed
         /\ files[req[r].id] = NoFile
         /\ \/ /\ files[req[r].fileId].data = req[r].file.data
               /\ files[req[r].fileId].length = req[r].file.length
            \/ /\ files[req[r].fileId] = NoFile
               /\ \E q \in Reqs : req[q].id = req[r].fileId /\ req[q].deleted = 1
  /\ \A q \in Reqs :
       (req[q].kind \in {"GET", "PUT", "DELETE"} /\ req[q].id \in req[q].replSeen) =>
         \/ req[q].pc = "find"
         \/ req[q].pc = "done" /\ req[q].status = 404

\* C11 witness: a content-replacing PUT of X succeeded, its new record is
\* live, and a GET for X that arrived afterwards has been answered.
C11_Witness ==
  \E r, q \in Reqs :
    /\ Replaced(r)
    /\ files[req[r].fileId] # NoFile
    /\ req[q].kind = "GET"
    /\ req[q].id = req[r].id
    /\ req[q].id \in req[q].replSeen
    /\ req[q].pc = "done"


\* C12: with no storage faults, a DELETE or a content-replacing PUT addressed
\* to a well-formed id ends with 200 or 404, whatever other request removes
\* the same record concurrently: never 500.
C12_RemovalIs200Or404 ==
  \A r \in Reqs :
    ( /\ \/ req[r].kind = "DELETE"
         \/ req[r].kind = "PUT" /\ req[r].file # NoBuf
      /\ req[r].ready
      /\ req[r].id # BadId
      /\ req[r].pc = "done" ) =>
      req[r].status \in {200, 404}

\* C13: a request answered 400 was rejected before its handler issued any
\* storage operation (so its find() never returned a document), and a
\* GET /video/:id without a Range header is answered 400 whether or not its
\* id is live.
C13_ValidationBeforeStorage ==
  \A r \in Reqs :
    /\ req[r].status = 400 => ~req[r].found
    /\ ( /\ req[r].kind = "GET"
         /\ req[r].ready
         /\ req[r].id # BadId
         /\ req[r].pc = "done"
         /\ req[r].range = NoRange ) =>
         req[r].status = 400


\* Request r is a content-replacing PUT between the removal of the old files
\* document and the insertion of the new one.
InReplaceWindow(r) ==
  /\ req[r].kind = "PUT"
  /\ req[r].file # NoBuf
  /\ req[r].deleted = 1
  /\ req[r].pc \in {"deleteChunks", "uploading"}

\* C14: content replace is not atomic: while a content-replacing PUT is
\* between its delete and the end of its upload, neither the old record nor
\* the new one is in videos.files, so a GET /videos or GET /video/:id that
\* reads then sees neither (the witness is such a read, with the PUT
\* succeeding afterwards).
C14_ReplaceWindow ==
  \A r \in Reqs :
    InReplaceWindow(r) =>
      /\ files[req[r].id] = NoFile
      /\ req[r].pc = "uploading" => files[req[r].upId] = NoFile

\* C14 witness: a GET /videos that arrived before the PUT responded found no
\* video at all, and the PUT has succeeded: its new record is live.
C14_Witness ==
  \E r, q \in Reqs :
    /\ Replaced(r)
    /\ files[req[r].fileId] # NoFile
    /\ req[q].kind = "LIST"
    /\ req[q].pc = "done"
    /\ req[q].status = 404
    /\ req[r].id \notin req[q].replSeen
    /\ req[r].id \notin req[q].delSeen


\* The download stream of request r emitted 'error' after the handler had set
\* the 206 status with a range that was valid for the video it found.
StreamFailed(r) ==
  /\ req[r].kind = "GET"
  /\ req[r].pc = "aborted"
  /\ RangeAccepted(req[r].snap, req[r].start, req[r].end)

\* C15: a request whose handling met a storage failure, a chunk read failure
\* after the 206 status was set included, has ended with one response that
\* carries an error body (an error status), and the server goes on.
C15_FailureAnswered ==
  \A r \in Reqs :
    StreamFailed(r) =>
      /\ req[r].status \in 400..599
      /\ alive

\* Request r arrived before the connection-open event and has performed no
\* storage operation.
NoStoreCall(r) ==
  /\ req[r].pc = "done"
  /\ ~req[r].found
  /\ req[r].listed = {}
  /\ req[r].upId = 0
  /\ req[r].deleted = 0
  /\ req[r].body = <<>>

\* C16 as stated: every request handled before the connection-open event is
\* answered 500 and performs no storage operation.
C16_BeforeOpenIs500 ==
  \A r \in Reqs :
    (req[r].kind # "none" /\ ~req[r].ready) => NoStoreCall(r) /\ req[r].status = 500

\* C16 amended: every request handled before the connection-open event
\* performs no storage operation and is answered 500, except a POST /upload
\* without title or file, which is answered 400; the handle, once assigned,
\* stays assigned for every request handled afterwards.
C16_BeforeOpenNoStore ==
  \A r \in Reqs :
    /\ (req[r].kind # "none" /\ ~req[r].ready) =>
         /\ NoStoreCall(r)
         /\ IF req[r].kind = "POST" /\ (req[r].title = NoTitle \/ req[r].file = NoBuf)
            THEN req[r].status = 400
            ELSE req[r].status = 500
    /\ req[r].ready => gridFSBucket

\* C16 witness: one request was answered 500 before the connection opened
\* and another, handled afterwards, found its video in the store.
C16_Witness ==
  \E r, q \in Reqs :
    /\ req[r].kind # "none" /\ ~req[r].ready /\ req[r].status = 500
    /\ req[q].ready /\ req[q].found


\* C17: in a content-replacing PUT the old record (files document and
\* chunks) is gone before the upload stream of the new content exists, so
\* before its first chunk is written, and the two records are never live
\* together; if the re-upload fails the request is answered 500 and neither
\* the old record nor the new one is in the store.
C17_DeleteBeforeUpload ==
  \A r \in Reqs :
    (req[r].kind = "PUT" /\ req[r].file # NoBuf) =>
      /\ req[r].upId # 0 =>
           /\ req[r].deleted = 1
           /\ files[req[r].id] = NoFile
           /\ chunks[req[r].id] = 0
      /\ (req[r].pc = "done" /\ req[r].upId \in failedUploads) =>
           /\ req[r].status = 500
           /\ files[req[r].id] = NoFile
           /\ files[req[r].upId] = NoFile

\* C17 witness: a PUT with a new title and a file updated the title, deleted
\* the old record and failed after writing one chunk of the new content.
C17_Witness ==
  \E r \in Reqs :
    /\ req[r].kind = "PUT"
    /\ req[r].file # NoBuf
    /\ req[r].title # NoTitle
    /\ req[r].delTitle = req[r].title
    /\ req[r].snap.title # req[r].title
    /\ req[r].pc = "done"
    /\ req[r].status = 500
    /\ req[r].upId \in failedUploads
    /\ chunks[req[r].upId] = 1

====
